---- MODULE Spec2Model ----
(***************************************************************************)
(* Model of converter.py: the dashcam file-name parser and grouper         *)
(* (VideoFileInfo.from_path, parse_files), the stitch job (stitch_group),  *)
(* the thread-pool orchestrator (stitch_all), the `stitch` command and     *)
(* combine_clips.                                                          *)
(*                                                                         *)
(* A file name is a sequence of one-character strings, so that             *)
(* Path.stem, str.split('_'), int(), datetime.strptime and the Path        *)
(* ordering used by sorted() are computed, not assumed.                    *)
(***************************************************************************)
EXTENDS Integers, Sequences, FiniteSets, TLC

(***************************************************************************)
(* Characters and strings                                                  *)
(***************************************************************************)

\* The characters that occur in the modelled file names, in code-point order
\* ('.' < digits < upper case < '_' < lower case).
Alphabet ==
    << ".", "0", "1", "2", "3", "4", "5", "6", "7", "8", "9",
       "A", "B", "C", "D", "E", "M", "N", "P", "X", "_", "m", "p", "t", "x" >>

Ord(c) == CHOOSE i \in 1..Len(Alphabet) : Alphabet[i] = c

Digits == {"0", "1", "2", "3", "4", "5", "6", "7", "8", "9"}

DigitVal(c) == Ord(c) - 2

\* str.lower() on the characters of the alphabet
Lower(c) ==
    CASE c = "M" -> "m"
      [] c = "P" -> "p"
      [] c = "X" -> "x"
      [] OTHER -> c

(***************************************************************************)
(* The files a source directory can hold                                   *)
(***************************************************************************)

U == << "_" >>

Mp4 == << ".", "m", "p", "4" >>

MP4 == << ".", "M", "P", "4" >>

Txt == << ".", "t", "x", "t" >>

D0703 == << "2", "0", "2", "4", "0", "7", "0", "3" >>

D0704 == << "2", "0", "2", "4", "0", "7", "0", "4" >>

T131044 == << "1", "3", "1", "0", "4", "4" >>

Id1 == << "0", "0", "0", "1" >>

Id2 == << "0", "0", "0", "2" >>

Name(date, time, id, type, position, ext) ==
    date \o U \o time \o U \o id \o U \o << type >> \o U \o << position >> \o ext

\* wrong token count
BadTokens == D0703 \o U \o T131044 \o U \o Id2 \o U \o << "N" >> \o Mp4

\* non-numeric group id; sorts before every good name
BadId ==
    Name(<< "2", "0", "2", "3", "0", "7", "0", "3" >>, T131044,
         << "0", "0", "x", "2" >>, "N", "A", Mp4)

\* month 13
BadMonth ==
    Name(<< "2", "0", "2", "4", "1", "3", "0", "3" >>, T131044, Id2, "N", "A", Mp4)

\* 30 February
BadDay ==
    Name(<< "2", "0", "2", "4", "0", "2", "3", "0" >>, T131044, Id2, "N", "A", Mp4)

\* hour 25
BadTime ==
    Name(D0703, << "2", "5", "6", "0", "4", "4" >>, Id2, "N", "A", Mp4)

\* type outside N, E, P; sorts after every good name
BadType ==
    Name(<< "2", "0", "2", "5", "0", "7", "0", "3" >>, T131044, Id2, "X", "A", Mp4)

\* position outside A, B, C
BadPosition == Name(D0703, T131044, Id2, "N", "D", Mp4)

\* a seven-character date and an unpadded id, which strptime and int() accept:
\* a second Front file of group 2
ShortName ==
    Name(<< "2", "0", "2", "4", "0", "7", "3" >>, T131044, << "2" >>, "N", "A", Mp4)

\* not a video: the glob does not match it
TextName == D0703 \o U \o T131044 \o U \o Id2 \o U \o << "N" >> \o Txt

\* The names. A path of the source directory is an index of this list; the
\* list is in no particular order. Entries 1 to 6 are two complete recordings,
\* group 1 (.mp4) and group 2 (.MP4); group 2 was recorded the day before
\* group 1, so the sorted file order meets group 2 first.
Pool ==
    << Name(D0704, T131044, Id1, "N", "C", Mp4),
       Name(D0703, T131044, Id2, "E", "B", MP4),
       Name(D0704, T131044, Id1, "N", "A", Mp4),
       Name(D0703, T131044, Id2, "E", "C", MP4),
       Name(D0703, T131044, Id2, "E", "A", MP4),
       Name(D0704, T131044, Id1, "N", "B", Mp4),
       BadType, BadTokens, BadId, BadMonth, BadDay, BadTime, BadPosition,
       ShortName, TextName >>

PathName(path) == Pool[path]

GoodPaths == 1..6

MalformedPaths == 7..13

OddPaths == 7..15

\* str < str: lexicographic by code point, a proper prefix is smaller
RECURSIVE StrLess(_, _)
StrLess(a, b) ==
    IF b = << >> THEN FALSE
    ELSE IF a = << >> THEN TRUE
    ELSE IF Head(a) # Head(b) THEN Ord(Head(a)) < Ord(Head(b))
    ELSE StrLess(Tail(a), Tail(b))

\* PurePath.__lt__ for two files of one directory compares the names
\* (tabulated once over the pool)
NameLess ==
    [a \in 1..Len(Pool) |-> [b \in 1..Len(Pool) |-> StrLess(PathName(a), PathName(b))]]

PathLess(a, b) == NameLess[a][b]

\* sorted(files): insertion in a sorted list, after the last element not greater
RECURSIVE InsertPath(_, _)
InsertPath(x, s) ==
    IF s = << >> THEN << x >>
    ELSE IF PathLess(x, Head(s)) THEN << x >> \o s
    ELSE << Head(s) >> \o InsertPath(x, Tail(s))

RECURSIVE SortedPaths(_)
SortedPaths(s) ==
    IF s = << >> THEN << >>
    ELSE InsertPath(s[Len(s)], SortedPaths(SubSeq(s, 1, Len(s) - 1)))

\* index of the last '.' of a name, 0 if none
RECURSIVE LastDot(_, _)
LastDot(s, i) ==
    IF i = 0 THEN 0
    ELSE IF s[i] = "." THEN i
    ELSE LastDot(s, i - 1)

\* PurePath.stem: the name without its last suffix; a leading dot starts none
Stem(name) ==
    LET d == LastDot(name, Len(name))
    IN  IF d > 1 /\ d < Len(name) THEN SubSeq(name, 1, d - 1) ELSE name

\* str.split('_'): the tokens between the separators, empty ones kept
RECURSIVE SplitAcc(_, _, _)
SplitAcc(s, cur, acc) ==
    IF s = << >> THEN Append(acc, cur)
    ELSE IF Head(s) = "_" THEN SplitAcc(Tail(s), << >>, Append(acc, cur))
    ELSE SplitAcc(Tail(s), Append(cur, Head(s)), acc)

Split(s) == SplitAcc(s, << >>, << >>)

AllDigits(s) == \A i \in 1..Len(s) : s[i] \in Digits

RECURSIVE DecVal(_)
DecVal(s) ==
    IF s = << >> THEN 0
    ELSE 10 * DecVal(SubSeq(s, 1, Len(s) - 1)) + DigitVal(s[Len(s)])

\* Path.glob('*.mp4', case_sensitive=False): the name ends with .mp4 in any case
NameMatches(path) ==
    LET name == PathName(path)
    IN  /\ Len(name) >= 4
        /\ LET e == SubSeq(name, Len(name) - 3, Len(name))
           IN  [i \in 1..4 |-> Lower(e[i])] = << ".", "m", "p", "4" >>

Matched == {path \in 1..Len(Pool) : NameMatches(path)}

GlobMatches(path) == path \in Matched

Glob(files) == SelectSeq(files, GlobMatches)

(***************************************************************************)
(* VideoFileInfo.from_path                                                 *)
(***************************************************************************)

\* VideoType(value) and Position(value): the closed sets of enum values
VideoTypeValues == {"N", "E", "P"}

PositionValues == {"A", "B", "C"}

FRONT == "A"

INTERNAL == "B"

REAR == "C"

\* int(pk): an optional sign and at least one digit (the names hold no blanks)
IntBody(tok) ==
    IF tok # << >> /\ Head(tok) \in {"+", "-"} THEN Tail(tok) ELSE tok

IntParses(tok) == IntBody(tok) # << >> /\ AllDigits(IntBody(tok))

IntValue(tok) ==
    IF tok # << >> /\ Head(tok) = "-" THEN 0 - DecVal(IntBody(tok))
    ELSE DecVal(IntBody(tok))

\* The strptime directives. Each is a regular expression whose alternatives
\* are tried in order: the two-character alternatives come first, and exclude
\* one another. XOk(a) says that a, of one or two characters, matches.
\*   %m  (1[0-2]|0[1-9]|[1-9])
MonthOk(a) ==
    \/ Len(a) = 2 /\ a[1] = "1" /\ a[2] \in {"0", "1", "2"}
    \/ Len(a) = 2 /\ a[1] = "0" /\ a[2] \in Digits \ {"0"}
    \/ Len(a) = 1 /\ a[1] \in Digits \ {"0"}

\*   %d  (3[01]|[12]\d|0[1-9]|[1-9]| [1-9]); the names hold no blanks
DayOk(a) ==
    \/ Len(a) = 2 /\ a[1] = "3" /\ a[2] \in {"0", "1"}
    \/ Len(a) = 2 /\ a[1] \in {"1", "2"} /\ a[2] \in Digits
    \/ Len(a) = 2 /\ a[1] = "0" /\ a[2] \in Digits \ {"0"}
    \/ Len(a) = 1 /\ a[1] \in Digits \ {"0"}

\*   %H  (2[0-3]|[0-1]\d|\d)
HourOk(a) ==
    \/ Len(a) = 2 /\ a[1] = "2" /\ a[2] \in {"0", "1", "2", "3"}
    \/ Len(a) = 2 /\ a[1] \in {"0", "1"} /\ a[2] \in Digits
    \/ Len(a) = 1 /\ a[1] \in Digits

\*   %M  ([0-5]\d|\d)
MinuteOk(a) ==
    \/ Len(a) = 2 /\ a[1] \in {"0", "1", "2", "3", "4", "5"} /\ a[2] \in Digits
    \/ Len(a) = 1 /\ a[1] \in Digits

\*   %S  (6[0-1]|[0-5]\d|\d)
SecondOk(a) ==
    \/ Len(a) = 2 /\ a[1] = "6" /\ a[2] \in {"0", "1"}
    \/ Len(a) = 2 /\ a[1] \in {"0", "1", "2", "3", "4", "5"} /\ a[2] \in Digits
    \/ Len(a) = 1 /\ a[1] \in Digits

\* The field widths re.match tries, in its backtracking order: the first that
\* matches is the match.
DateWidths == << << 2, 2 >>, << 2, 1 >>, << 1, 2 >>, << 1, 1 >> >>

TimeWidths ==
    << << 2, 2, 2 >>, << 2, 2, 1 >>, << 2, 1, 2 >>, << 2, 1, 1 >>,
       << 1, 2, 2 >>, << 1, 2, 1 >>, << 1, 1, 2 >>, << 1, 1, 1 >> >>

\* the field of width n that starts at i, empty if s is too short for it
Field(s, i, n) == IF i + n - 1 <= Len(s) THEN SubSeq(s, i, i + n - 1) ELSE << >>

IsLeap(y) == (y % 4 = 0 /\ y % 100 # 0) \/ y % 400 = 0

DaysInMonth(y, m) ==
    IF m = 2 THEN (IF IsLeap(y) THEN 29 ELSE 28)
    ELSE IF m \in {4, 6, 9, 11} THEN 30
    ELSE 31

NoDate == [ok |-> FALSE, value |-> << >>]

\* %Y%m%d matches s with the month and day widths w
DateFits(s, w) ==
    /\ Len(s) >= 4
    /\ AllDigits(SubSeq(s, 1, 4))
    /\ MonthOk(Field(s, 5, w[1]))
    /\ DayOk(Field(s, 5 + w[1], w[2]))

\* the date of a match: characters left over are "unconverted data", and the
\* datetime constructor rejects the year 0 and a day the month does not have
DateOf(s, w) ==
    LET v == << DecVal(SubSeq(s, 1, 4)), DecVal(Field(s, 5, w[1])),
                DecVal(Field(s, 5 + w[1], w[2])) >>
    IN  IF 4 + w[1] + w[2] # Len(s) THEN NoDate
        ELSE IF v[1] < 1 \/ v[3] > DaysInMonth(v[1], v[2]) THEN NoDate
        ELSE [ok |-> TRUE, value |-> v]

\* datetime.strptime(date, '%Y%m%d')
StrptimeDate(s) ==
    LET fit == {k \in 1..Len(DateWidths) : DateFits(s, DateWidths[k])}
    IN  IF fit = {} THEN NoDate
        ELSE DateOf(s, DateWidths[CHOOSE k \in fit : \A z \in fit : k <= z])

\* %H%M%S matches s with the field widths w
TimeFits(s, w) ==
    /\ HourOk(Field(s, 1, w[1]))
    /\ MinuteOk(Field(s, 1 + w[1], w[2]))
    /\ SecondOk(Field(s, 1 + w[1] + w[2], w[3]))

\* the time of a match: a second of 60 or 61 matches the pattern and is
\* rejected by the datetime constructor
TimeOf(s, w) ==
    LET v == << DecVal(Field(s, 1, w[1])), DecVal(Field(s, 1 + w[1], w[2])),
                DecVal(Field(s, 1 + w[1] + w[2], w[3])) >>
    IN  IF w[1] + w[2] + w[3] # Len(s) THEN NoDate
        ELSE IF v[3] > 59 THEN NoDate
        ELSE [ok |-> TRUE, value |-> v]

\* datetime.strptime(time, '%H%M%S').time()
StrptimeTime(s) ==
    LET fit == {k \in 1..Len(TimeWidths) : TimeFits(s, TimeWidths[k])}
    IN  IF fit = {} THEN NoDate
        ELSE TimeOf(s, TimeWidths[CHOOSE k \in fit : \A z \in fit : k <= z])

\* from_path(path): the VideoFileInfo, or the ValueError any of its steps raises
\* (the unpacking of the split, int(), strptime(), VideoType(), Position()).
ValueError == [ok |-> FALSE, error |-> "ValueError"]

\* the record built from five tokens
Record(toks, path) ==
    LET d == StrptimeDate(toks[1])
        t == StrptimeTime(toks[2])
    IN  IF ~IntParses(toks[3]) \/ ~d.ok \/ ~t.ok THEN ValueError
        ELSE IF ~(Len(toks[4]) = 1 /\ toks[4][1] \in VideoTypeValues) THEN ValueError
        ELSE IF ~(Len(toks[5]) = 1 /\ toks[5][1] \in PositionValues) THEN ValueError
        ELSE [ok |-> TRUE,
              vf |-> [ts |-> d.value \o t.value,
                      id |-> IntValue(toks[3]),
                      video_type |-> toks[4][1],
                      position |-> toks[5][1],
                      file |-> path]]

FromPath(path) ==
    LET toks == Split(Stem(PathName(path)))
    IN  IF Len(toks) # 5 THEN ValueError ELSE Record(toks, path)

\* from_path tabulated once over the pool
Parsed == [path \in 1..Len(Pool) |-> FromPath(path)]

(***************************************************************************)
(* parse_files                                                             *)
(***************************************************************************)

\* groups[vf.id].append(vf) on the insertion-ordered dict, kept as a sequence of
\* [pk, files] in the order the keys were first seen
DictAppend(groups, vf) ==
    IF \E i \in 1..Len(groups) : groups[i].pk = vf.id
    THEN [i \in 1..Len(groups) |->
            IF groups[i].pk = vf.id
            THEN [groups[i] EXCEPT !.files = Append(@, vf)]
            ELSE groups[i]]
    ELSE Append(groups, [pk |-> vf.id, files |-> << vf >>])

\* parse_files with a loop that passes over the files from_path rejects
RECURSIVE ParseLoopSkips(_, _)
ParseLoopSkips(files, groups) ==
    IF files = << >> THEN [ok |-> TRUE, groups |-> groups]
    ELSE IF ~Parsed[Head(files)].ok THEN ParseLoopSkips(Tail(files), groups)
    ELSE ParseLoopSkips(Tail(files), DictAppend(groups, Parsed[Head(files)].vf))

\* the loop over sorted(files): the dict after the last file, or the error of
\* the first file from_path rejects
RECURSIVE ParseLoop(_, _)
ParseLoop(files, groups) ==
    IF files = << >> THEN [ok |-> TRUE, groups |-> groups]
    ELSE
      LET r == Parsed[Head(files)]
      IN  IF ~r.ok THEN ValueError
          ELSE ParseLoop(Tail(files), DictAppend(groups, r.vf))

\* FileGroup(files[0].ts, pk, files)
FileGroup(pk, files) == [ts |-> files[1].ts, pk |-> pk, files |-> files]

\* parse_files without its final sort
NoSortGroups(s) == s

\* file_groups.sort(key=lambda fg: fg.pk): stable insertion by pk
RECURSIVE InsertGroup(_, _)
InsertGroup(g, s) ==
    IF s = << >> THEN << g >>
    ELSE IF g.pk < Head(s).pk THEN << g >> \o s
    ELSE << Head(s) >> \o InsertGroup(g, Tail(s))

RECURSIVE SortGroups(_)
SortGroups(s) ==
    IF s = << >> THEN << >>
    ELSE InsertGroup(s[Len(s)], SortGroups(SubSeq(s, 1, Len(s) - 1)))

BuildGroups(d) == [i \in 1..Len(d) |-> FileGroup(d[i].pk, d[i].files)]

\* parse_files(source), source listing its files in the order `listing`
ParseFiles(listing) ==
    LET r == ParseLoop(SortedPaths(Glob(listing)), << >>)
    IN  IF ~r.ok THEN r
        ELSE [ok |-> TRUE, groups |-> SortGroups(BuildGroups(r.groups))]

(***************************************************************************)
(* Bounds                                                                  *)
(***************************************************************************)

\* the longest list of groups handed to stitch_all directly
MaxGroups == 3

\* the largest max_workers
MaxWorkers == 2

\* the most files of a source directory
MaxFiles == 6

\* the longest list of clips handed to combine_clips
MaxClips == 3

\* the longest file list of a single group handed to stitch_group
MaxGroupFiles == 3

(***************************************************************************)
(* State                                                                   *)
(***************************************************************************)

VARIABLES
    source,       \* stitch: the files of the source directory
    listing,      \* stitch: what source.glob() has still to yield, in its order
    pc,           \* where the main thread (the consumer of stitch_all) stands
    groups,       \* stitch_all: its argument
    max_workers,  \* stitch_all: its argument
    futures,      \* stitch_all: one entry per submitted job, in submission order
    next_i,       \* stitch_all: how many futures the drain loop has passed
    out_exists,   \* whether ./out exists
    out_files,    \* the files of ./out
    yielded,      \* what the consumer has received, in order
    raised,       \* the exception the consumer has received, or None
    logged,       \* the groups whose error was printed
    completed,    \* the jobs in the order their futures were completed
    clips,        \* combine_clips: its argument output_files
    cpc,          \* combine_clips: where it stands
    written,      \* combine_clips: how many lines of the manifest are written
    manifest,     \* file_list.txt: whether it exists, and its lines
    final_file,   \* whether the final output file was written
    craised       \* combine_clips: the exception it raised, or None

stitch_vars ==
    << source, listing, pc, groups, max_workers, futures, next_i, out_exists,
       out_files,
       yielded, raised, logged, completed >>

combine_vars == << clips, cpc, written, manifest, final_file, craised >>

vars ==
    << source, listing, pc, groups, max_workers, futures, next_i, out_exists,
       out_files,
       yielded, raised, logged, completed, clips, cpc, written, manifest, final_file,
       craised >>

None == [kind |-> "None"]

(***************************************************************************)
(* stitch_group                                                            *)
(***************************************************************************)

\* FileGroup.get_by_position: next() over the generator of the files at the
\* position; an exhausted generator makes next() raise StopIteration, which
\* carries no arguments.
StopIteration(job) == [kind |-> "StopIteration", args |-> << >>, job |-> job]

GetByPosition(group, position, job) ==
    LET at == {k \in 1..Len(group.files) : group.files[k].position = position}
    IN  IF at = {} THEN [ok |-> FALSE, error |-> StopIteration(job)]
        ELSE [ok |-> TRUE,
              vf |-> group.files[CHOOSE k \in at : \A z \in at : k <= z]]

\* the three lookups of stitch_group, in the order Front, Internal, Rear
Lookups(group, job) ==
    LET f == GetByPosition(group, FRONT, job)
        n == GetByPosition(group, INTERNAL, job)
        r == GetByPosition(group, REAR, job)
    IN  IF ~f.ok THEN f
        ELSE IF ~n.ok THEN n
        ELSE IF ~r.ok THEN r
        ELSE [ok |-> TRUE, front |-> f.vf.file, internal |-> n.vf.file,
              rear |-> r.vf.file]

\* Path(f"./out/output_{group.pk}.mp4")
OutputFile(pk) == << "./out/output_", pk, ".mp4" >>

\* Path.mkdir() of an existing directory
FileExistsError(job) == [kind |-> "FileExistsError", args |-> << "out" >>, job |-> job]

\* a failed run of the media engine
EngineError(job) == [kind |-> "ffmpeg.Error", args |-> << "ffmpeg" >>, job |-> job]

Phase(i) == futures[i].phase

\* the jobs a worker thread is executing
Running == {i \in 1..Len(futures) : Phase(i) \in {"check", "mkdir", "engine"}}

\* Future.set_exception / Future.set_result
SetException(i, e) ==
    [futures EXCEPT ![i] = [phase |-> "done", ok |-> FALSE, value |-> e]]

SetResult(i, v) ==
    [futures EXCEPT ![i] = [phase |-> "done", ok |-> TRUE, value |-> v]]

\* a pool that starts a thread for every job
WorkerAlwaysFree == TRUE

\* ThreadPoolExecutor: the work queue is first in, first out, and at most
\* max_workers threads take work from it
WorkerFree == Cardinality(Running) < max_workers

\* A worker takes the oldest queued job and runs stitch_group up to the lookups.
StartJob(i) ==
    /\ i \in 1..Len(futures)
    /\ Phase(i) = "queued"
    /\ \A k \in 1..(i - 1) : Phase(k) # "queued"
    /\ WorkerFree
    /\ LET r == Lookups(groups[i], i)
       IN  IF r.ok
           THEN /\ futures' = [futures EXCEPT ![i].phase = "check"]
                /\ UNCHANGED completed
           ELSE /\ futures' = SetException(i, r.error)
                /\ completed' = Append(completed, i)
    /\ UNCHANGED << source, listing, pc, groups, max_workers, next_i, out_exists,
                    out_files, yielded, raised, logged >>
    /\ UNCHANGED combine_vars

\* if not Path('./out').exists():
CheckExists(i) ==
    /\ i \in 1..Len(futures)
    /\ Phase(i) = "check"
    /\ futures' = [futures EXCEPT ![i].phase = IF out_exists THEN "engine" ELSE "mkdir"]
    /\ UNCHANGED << source, listing, pc, groups, max_workers, next_i, out_exists, out_files,
                    yielded, raised, logged, completed >>
    /\ UNCHANGED combine_vars

\* Path('./out').mkdir()
Mkdir(i) ==
    /\ i \in 1..Len(futures)
    /\ Phase(i) = "mkdir"
    /\ IF out_exists
       THEN /\ futures' = SetException(i, FileExistsError(i))
            /\ completed' = Append(completed, i)
            /\ UNCHANGED out_exists
       ELSE /\ futures' = [futures EXCEPT ![i].phase = "engine"]
            /\ out_exists' = TRUE
            /\ UNCHANGED completed
    /\ UNCHANGED << source, listing, pc, groups, max_workers, next_i, out_files,
                    yielded, raised, logged >>
    /\ UNCHANGED combine_vars

\* ffmpeg.output(...).run(overwrite_output=True) ends well: the output file is
\* written (over an older one) and stitch_group returns its path
EngineSucceeds(i) ==
    /\ i \in 1..Len(futures)
    /\ Phase(i) = "engine"
    /\ out_files' = out_files \cup {OutputFile(groups[i].pk)}
    /\ futures' = SetResult(i, OutputFile(groups[i].pk))
    /\ completed' = Append(completed, i)
    /\ UNCHANGED << source, listing, pc, groups, max_workers, next_i, out_exists,
                    yielded, raised, logged >>
    /\ UNCHANGED combine_vars

\* ... or raises
EngineFails(i) ==
    /\ i \in 1..Len(futures)
    /\ Phase(i) = "engine"
    /\ futures' = SetException(i, EngineError(i))
    /\ completed' = Append(completed, i)
    /\ UNCHANGED << source, listing, pc, groups, max_workers, next_i, out_exists,
                    out_files, yielded, raised, logged >>
    /\ UNCHANGED combine_vars

(***************************************************************************)
(* stitch_all                                                              *)
(***************************************************************************)

\* executor.submit(stitch_group, group); futures.append((group, future))
Submit ==
    /\ pc = "submit"
    /\ Len(futures) < Len(groups)
    /\ futures' = Append(futures, [phase |-> "queued", ok |-> FALSE, value |-> None])
    /\ UNCHANGED << source, listing, pc, groups, max_workers, next_i, out_exists, out_files,
                    yielded, raised, logged, completed >>
    /\ UNCHANGED combine_vars

\* the end of the for loop: the with block is left
EndSubmit ==
    /\ pc = "submit"
    /\ Len(futures) = Len(groups)
    /\ pc' = "shutdown"
    /\ UNCHANGED << source, listing, groups, max_workers, futures, next_i, out_exists,
                    out_files, yielded, raised, logged, completed >>
    /\ UNCHANGED combine_vars

\* shutdown(wait=False): the with block is left while jobs are running
ShutdownNoWait ==
    /\ pc = "shutdown"
    /\ pc' = "drain"
    /\ UNCHANGED << source, listing, groups, max_workers, futures, next_i, out_exists,
                    out_files, yielded, raised, logged, completed >>
    /\ UNCHANGED << clips, cpc, written, manifest, final_file, craised >>

AllDone == \A i \in 1..Len(futures) : Phase(i) = "done"

\* ThreadPoolExecutor.__exit__: shutdown(wait=True) joins the worker threads
Shutdown ==
    /\ pc = "shutdown"
    /\ AllDone
    /\ pc' = "drain"
    /\ UNCHANGED << source, listing, groups, max_workers, futures, next_i, out_exists,
                    out_files, yielded, raised, logged, completed >>
    /\ UNCHANGED combine_vars

\* `raise e` inside the generator: a StopIteration that leaves a generator body
\* is replaced by RuntimeError('generator raised StopIteration') with the
\* StopIteration as its cause; any other exception leaves as it is
Reraise(e) ==
    IF e.kind = "StopIteration"
    THEN [kind |-> "RuntimeError", args |-> << "generator raised StopIteration" >>,
          cause |-> e]
    ELSE e

\* a drain loop over the futures in the order they were completed
DrainAsCompleted ==
    /\ pc = "drain"
    /\ IF next_i = Len(futures)
       THEN /\ pc' = "done"
            /\ UNCHANGED << next_i, yielded, raised, logged >>
       ELSE /\ next_i < Len(completed)
            /\ LET j == completed[next_i + 1]
               IN  IF futures[j].ok
                   THEN /\ yielded' = Append(yielded, << groups[j], futures[j].value >>)
                        /\ next_i' = next_i + 1
                        /\ UNCHANGED << pc, raised, logged >>
                   ELSE /\ logged' = Append(logged, groups[j])
                        /\ raised' = futures[j].value
                        /\ pc' = "raised"
                        /\ UNCHANGED << next_i, yielded >>
    /\ UNCHANGED << source, listing, groups, max_workers, futures, out_exists, out_files,
                    completed >>
    /\ UNCHANGED << clips, cpc, written, manifest, final_file, craised >>

\* a drain loop that prints the error of a failed job and goes on
DrainSkipsFailed ==
    /\ pc = "drain"
    /\ IF next_i = Len(futures)
       THEN /\ pc' = "done"
            /\ UNCHANGED << next_i, yielded, raised, logged >>
       ELSE /\ futures[next_i + 1].phase = "done"
            /\ next_i' = next_i + 1
            /\ IF futures[next_i + 1].ok
               THEN /\ yielded' = Append(yielded,
                                         << groups[next_i + 1], futures[next_i + 1].value >>)
                    /\ UNCHANGED << pc, raised, logged >>
               ELSE /\ logged' = Append(logged, groups[next_i + 1])
                    /\ UNCHANGED << pc, raised, yielded >>
    /\ UNCHANGED << source, listing, groups, max_workers, futures, out_exists, out_files,
                    completed >>
    /\ UNCHANGED << clips, cpc, written, manifest, final_file, craised >>

\* One next() of the consumer on the drain loop: future.result() returns and the
\* pair is yielded, or it raises and the error is printed and raised again, or
\* the list is exhausted.
Drain ==
    /\ pc = "drain"
    /\ IF next_i = Len(futures)
       THEN /\ pc' = "done"
            /\ UNCHANGED << next_i, yielded, raised, logged, completed >>
       ELSE /\ Phase(next_i + 1) = "done"
            /\ IF futures[next_i + 1].ok
               THEN /\ yielded' = Append(yielded,
                                         << groups[next_i + 1], futures[next_i + 1].value >>)
                    /\ next_i' = next_i + 1
                    /\ UNCHANGED << pc, raised, logged >>
               ELSE /\ logged' = Append(logged, groups[next_i + 1])
                    /\ raised' = Reraise(futures[next_i + 1].value)
                    /\ pc' = "raised"
                    /\ UNCHANGED << next_i, yielded >>
    /\ UNCHANGED << source, listing, groups, max_workers, futures, out_exists, out_files,
                    completed >>
    /\ UNCHANGED combine_vars

(***************************************************************************)
(* The `stitch` command                                                    *)
(***************************************************************************)

\* file_groups = parse_files(src), then the loop over stitch_all(file_groups,
\* max_workers=parallelism) with the parallelism the command was given; an
\* error of parse_files ends the command
CliParse ==
    /\ pc = "parse"
    /\ LET r == ParseFiles(listing)
       IN  IF r.ok
           THEN /\ groups' = r.groups
                /\ pc' = "submit"
                /\ max_workers' \in 1..MaxWorkers
                /\ UNCHANGED raised
           ELSE /\ raised' = [kind |-> r.error, args |-> << >>]
                /\ pc' = "raised"
                /\ UNCHANGED << groups, max_workers >>
    /\ listing' = << >>
    /\ UNCHANGED << source, futures, next_i, out_exists, out_files,
                    yielded, logged, completed >>
    /\ UNCHANGED combine_vars

(***************************************************************************)
(* combine_clips                                                           *)
(***************************************************************************)

\* f"file '{path.absolute()}'\n"
ManifestLine(path) == << "file '", << "/cwd" >> \o path, "'" >>

NoFile == [exists |-> FALSE, lines |-> << >>]

\* create_file_list: list_filename.open('w') creates or empties the manifest
OpenManifest ==
    /\ cpc = "open"
    /\ manifest' = [exists |-> TRUE, lines |-> << >>]
    /\ cpc' = "write"
    /\ UNCHANGED << clips, written, final_file, craised >>
    /\ UNCHANGED stitch_vars

\* create_file_list: one f.write per path
WriteLine ==
    /\ cpc = "write"
    /\ written < Len(clips)
    /\ manifest' = [manifest EXCEPT !.lines = Append(@, ManifestLine(clips[written + 1]))]
    /\ written' = written + 1
    /\ UNCHANGED << clips, cpc, final_file, craised >>
    /\ UNCHANGED stitch_vars

\* create_file_list returns, the try block is entered
CloseManifest ==
    /\ cpc = "write"
    /\ written = Len(clips)
    /\ cpc' = "run"
    /\ UNCHANGED << clips, written, manifest, final_file, craised >>
    /\ UNCHANGED stitch_vars

CalledProcessError == [kind |-> "CalledProcessError", args |-> << "ffmpeg" >>]

FileNotFoundError == [kind |-> "FileNotFoundError", args |-> << "file_list.txt" >>]

\* subprocess.run(command, check=True) returns
ConcatSucceeds ==
    /\ cpc = "run"
    /\ final_file' = TRUE
    /\ cpc' = "finally"
    /\ UNCHANGED << clips, written, manifest, craised >>
    /\ UNCHANGED stitch_vars

\* ... or raises: the except clause prints and raises it again
ConcatFails ==
    /\ cpc = "run"
    /\ craised' = CalledProcessError
    /\ cpc' = "finally"
    /\ UNCHANGED << clips, written, manifest, final_file >>
    /\ UNCHANGED stitch_vars

\* the unlink at the end of the try body instead of the finally clause: a
\* failed concatenation leaves the manifest
UnlinkInTry ==
    /\ cpc = "finally"
    /\ IF craised = None
       THEN /\ manifest' = [exists |-> FALSE, lines |-> << >>]
            /\ cpc' = "returned"
       ELSE /\ cpc' = "raised"
            /\ UNCHANGED manifest
    /\ UNCHANGED << clips, written, final_file, craised >>
    /\ UNCHANGED stitch_vars

\* finally: temp_file_list.unlink(), then the return or the pending exception
Unlink ==
    /\ cpc = "finally"
    /\ IF ~manifest.exists
       THEN /\ craised' = FileNotFoundError
            /\ cpc' = "raised"
            /\ UNCHANGED manifest
       ELSE /\ manifest' = NoFile
            /\ cpc' = IF craised = None THEN "returned" ELSE "raised"
            /\ UNCHANGED craised
    /\ UNCHANGED << clips, written, final_file >>
    /\ UNCHANGED stitch_vars

(***************************************************************************)
(* Specifications                                                          *)
(***************************************************************************)

\* a FileGroup whose k-th file is at positions[k]; the paths are short names
MkGroup(pk, positions) ==
    FileGroup(pk, [k \in 1..Len(positions) |->
                     [ts |-> << 2024, 7, 3, 13, 10, 44 >>, id |-> pk,
                      video_type |-> "N", position |-> positions[k],
                      file |-> << "clip", pk, k >>]])

\* a complete group and a group that lacks its Rear file
GroupShapes == { << "A", "B", "C" >>, << "A", "B" >> }

\* the sequences of n distinct group ids
DistinctPks(n) ==
    {q \in [1..n -> 1..MaxGroups] : \A a, b \in 1..n : a # b => q[a] # q[b]}

GroupLists ==
    UNION {{[k \in 1..n |-> MkGroup(pks[k], shapes[k])] :
              pks \in DistinctPks(n), shapes \in [1..n -> GroupShapes]} :
           n \in 0..MaxGroups}

CombineIdle ==
    /\ clips = << >>
    /\ cpc = "idle"
    /\ written = 0
    /\ manifest = NoFile
    /\ final_file = FALSE
    /\ craised = None

StitchStart ==
    /\ futures = << >>
    /\ next_i = 0
    /\ out_exists \in BOOLEAN
    /\ out_files = {}
    /\ yielded = << >>
    /\ raised = None
    /\ logged = << >>
    /\ completed = << >>

\* stitch_all(groups, max_workers) at the consumer's first next()
Init ==
    /\ source = {}
    /\ listing = << >>
    /\ pc = "submit"
    /\ groups \in GroupLists
    /\ max_workers \in 1..MaxWorkers
    /\ StitchStart
    /\ CombineIdle

Next ==
    \/ Submit
    \/ EndSubmit
    \/ \E i \in 1..Len(futures) : StartJob(i)
    \/ \E i \in 1..Len(futures) : CheckExists(i)
    \/ \E i \in 1..Len(futures) : Mkdir(i)
    \/ \E i \in 1..Len(futures) : EngineSucceeds(i)
    \/ \E i \in 1..Len(futures) : EngineFails(i)
    \/ Shutdown
    \/ Drain

Spec == Init /\ [][Next]_vars

\* every file list of up to MaxGroupFiles files: positions may miss or repeat
AnyShapes == UNION {[1..n -> PositionValues] : n \in 1..MaxGroupFiles}

\* stitch_all on one group of any shape: one stitch job on its own
InitJob ==
    /\ source = {}
    /\ listing = << >>
    /\ pc = "submit"
    /\ groups \in {<< MkGroup(pk, shape) >> : pk \in 1..MaxGroups, shape \in AnyShapes}
    /\ max_workers \in 1..MaxWorkers
    /\ StitchStart
    /\ CombineIdle

SpecJob == InitJob /\ [][Next]_vars

\* the source directories: good files and at most one odd file, at most
\* MaxFiles in all, listed in any order
Directories ==
    {d \in SUBSET (GoodPaths \cup OddPaths) :
        /\ Cardinality(d) <= MaxFiles
        /\ Cardinality(d \cap OddPaths) <= 1}

\* the orders a directory can be listed in
RECURSIVE Orders(_)
Orders(d) ==
    IF d = {} THEN {<< >>}
    ELSE UNION {{<< x >> \o q : q \in Orders(d \ {x})} : x \in d}

\* the `stitch` command on a source directory
InitCli ==
    /\ source \in Directories
    /\ listing \in Orders(source)
    /\ pc = "parse"
    /\ groups = << >>
    /\ max_workers = 1
    /\ StitchStart
    /\ CombineIdle

NextCli ==
    \/ CliParse
    \/ Next

SpecCli == InitCli /\ [][NextCli]_vars

ClipPool == {OutputFile(pk) : pk \in 1..3}

ClipLists == UNION {[1..n -> ClipPool] : n \in 0..MaxClips}

\* combine_clips(output_files, final_output_file)
InitCombine ==
    /\ source = {}
    /\ listing = << >>
    /\ pc = "idle"
    /\ groups = << >>
    /\ max_workers = 1
    /\ futures = << >>
    /\ next_i = 0
    /\ out_exists = TRUE
    /\ out_files = {}
    /\ yielded = << >>
    /\ raised = None
    /\ logged = << >>
    /\ completed = << >>
    /\ clips \in ClipLists
    /\ cpc = "open"
    /\ written = 0
    /\ manifest \in {NoFile, [exists |-> TRUE, lines |-> << ManifestLine(OutputFile(1)) >>]}
    /\ final_file \in BOOLEAN
    /\ craised = None

NextCombine ==
    \/ OpenManifest
    \/ WriteLine
    \/ CloseManifest
    \/ ConcatSucceeds
    \/ ConcatFails
    \/ Unlink

SpecCombine == InitCombine /\ [][NextCombine]_vars

(***************************************************************************)
(* Properties                                                              *)
(***************************************************************************)

\* what stitch_all yields for the k-th submitted group
Pair(k) == << groups[k], OutputFile(groups[k].pk) >>

Failed(i) == futures[i].phase = "done" /\ ~futures[i].ok

Succeeded(i) == futures[i].phase = "done" /\ futures[i].ok

AllSucceeded ==
    /\ Len(futures) = Len(groups)
    /\ \A i \in 1..Len(futures) : Succeeded(i)

\* C1: what the consumer has received is always the results of the first
\* groups, one pair per group in submission order, whatever order the jobs
\* were completed in; when every job succeeded nothing is raised, and the
\* exhausted sequence has yielded one pair for every group.
C1_SubmissionOrder ==
    /\ Len(yielded) <= Len(groups)
    /\ \A k \in 1..Len(yielded) : yielded[k] = Pair(k)
    /\ AllSucceeded => pc # "raised"
    /\ (pc = "done" /\ AllSucceeded) => Len(yielded) = Len(groups)

\* C1: three groups on two workers, job 2 completed before job 1, and all
\* three results were yielded
C1_Witness ==
    /\ pc = "done"
    /\ Len(groups) = 3
    /\ max_workers = 2
    /\ completed = << 2, 1, 3 >>
    /\ Len(yielded) = 3

\* C2: a failed job i keeps the result of group i and of every later group
\* from the consumer, and when stitch_all has raised, the consumer holds
\* exactly the results of the groups before the first failed one, in order,
\* and that group's error was printed.
C2_AbortAtFirstFailure ==
    /\ \A i \in 1..Len(futures) : Failed(i) => Len(yielded) < i
    /\ \A k \in 1..Len(yielded) : k <= Len(groups) /\ yielded[k] = Pair(k)
    /\ pc = "done" => \A i \in 1..Len(futures) : ~Failed(i)
    /\ pc = "raised" =>
          \E k \in 1..Len(futures) :
              /\ Failed(k)
              /\ \A j \in 1..(k - 1) : Succeeded(j)
              /\ Len(yielded) = k - 1
              /\ logged = << groups[k] >>
              /\ raised # None

\* C2: job 2 of three failed after job 3 had succeeded; the consumer got
\* result 1 and the error
C2_Witness ==
    /\ pc = "raised"
    /\ Len(groups) = 3
    /\ completed = << 1, 3, 2 >>
    /\ Succeeded(1) /\ Failed(2) /\ Succeeded(3)
    /\ Len(yielded) = 1

\* C3: no stitch job fails because ./out exists already, and ./out exists
\* once a job has passed its creation.
C3_ConcurrentMkdirSafe ==
    /\ \A i \in 1..Len(futures) :
          Failed(i) => futures[i].value.kind # "FileExistsError"
    /\ \A i \in 1..Len(futures) :
          (Phase(i) = "engine" \/ Succeeded(i)) => out_exists

\* C4: the error stitch_all raises is the error the job raised.
C4_ErrorIdentityPreserved ==
    pc = "raised" => raised = futures[next_i + 1].value

\* the positions a group has no file at
Missing(group) ==
    {p \in {FRONT, INTERNAL, REAR} :
        \A k \in 1..Len(group.files) : group.files[k].position # p}

\* C5: the job of a group that lacks a position fails with an error that
\* names a missing position and the group's id, and writes no output file.
C5_MissingPositionNamed ==
    \A i \in 1..Len(futures) :
        (Phase(i) = "done" /\ Missing(groups[i]) # {}) =>
            /\ ~futures[i].ok
            /\ \E p \in Missing(groups[i]) : futures[i].value.args = << p, groups[i].pk >>
            /\ OutputFile(groups[i].pk) \notin out_files

\* The naming schema read by columns: YYYYMMDD_HHMMSS_gggg_T_P
SchemaId(path) == DecVal(SubSeq(PathName(path), 17, 20))

SchemaPosition(path) == PathName(path)[24]

\* the videos of a directory: every pool entry but the text file
Videos(d) == {p \in d : PathName(p) # TextName}

\* the videos of d form complete recordings: each follows the schema, and each
\* group id present has exactly one file at each position
WellFormed(d) ==
    /\ Videos(d) \subseteq GoodPaths
    /\ \A p \in Videos(d) : \A pos \in PositionValues :
          Cardinality({q \in Videos(d) :
                          SchemaId(q) = SchemaId(p) /\ SchemaPosition(q) = pos}) = 1

\* C6: after parse_files on a directory of well-formed groups, the groups are
\* one per group id of the directory, in strictly ascending order of id, each
\* holding exactly the three files that carry its id, however the directory
\* was listed.
C6_WellFormedGrouping ==
    (pc # "parse" /\ WellFormed(source)) =>
        /\ Len(groups) = Cardinality({SchemaId(p) : p \in Videos(source)})
        /\ \A k \in 1..(Len(groups) - 1) : groups[k].pk < groups[k + 1].pk
        /\ \A k \in 1..Len(groups) :
              /\ Len(groups[k].files) = 3
              /\ {groups[k].files[j].file : j \in 1..3}
                    = {p \in Videos(source) : SchemaId(p) = groups[k].pk}

\* C6: both recordings, parsed into two groups and stitched
C6_Witness ==
    /\ source = GoodPaths
    /\ pc = "done"
    /\ Len(groups) = 2
    /\ Len(yielded) = 2

C9_AtMostMaxWorkers ==
    /\ Cardinality(Running) <= max_workers
    /\ Cardinality({i \in 1..Len(futures) : Phase(i) = "engine"}) <= max_workers

\* C9: three jobs submitted to two workers: two engines run, the third job waits
C9_Witness ==
    /\ max_workers = 2
    /\ Len(futures) = 3
    /\ Phase(1) = "engine"
    /\ Phase(2) = "engine"
    /\ Phase(3) = "queued"

\* C10: the consumer gets a result, an error or the end of the sequence only
\* when every group's job was submitted and has finished.
C10_DrainAfterAllJobs ==
    (pc \in {"drain", "done", "raised"} \/ yielded # << >> \/ raised # None) =>
        /\ Len(futures) = Len(groups)
        /\ \A i \in 1..Len(futures) : Phase(i) = "done"

\* C10: the first job failed first, the two later jobs ran to completion
\* before the error reached the consumer
C10_Witness ==
    /\ pc = "raised"
    /\ Len(groups) = 3
    /\ completed = << 1, 2, 3 >>
    /\ Failed(1) /\ Succeeded(2) /\ Succeeded(3)

====
